---- MODULE Spec2Model ----
(***************************************************************************)
(* Job lifecycle manager of the PDF -> Markdown server:                    *)
(*   QueueManager (queue_manager.py): registry `jobs`, work queue          *)
(*   `job_queue`, registry lock `lock`, stop signal `stop_event`, worker   *)
(*   threads running _worker;                                              *)
(*   the Flask routes /status/<job_id>, /result/<job_id> and /stats        *)
(*   (server.py).                                                          *)
(* Taking self.lock is a step of its own.  In the worker's writing blocks  *)
(* every statement is a step and the lock is released with the last one;   *)
(* a block that only reads is one step that ends with the release.  Every  *)
(* statement outside a block that touches shared state is a step.          *)
(* The answer a request is about to give is a function of the state in    *)
(* which the request holds the lock (get_status_response,                  *)
(* get_result_response).                                                   *)
(***************************************************************************)
EXTENDS Integers, Sequences, FiniteSets, TLC

\* ------------------------------------------------------------------ bounds
MaxJobs == 2
MaxClock == 1
\* the longest job_ids list of a batch request
MaxBatch == 2
\* client.py: the number of PDF files handed to the pool
MaxFiles == 2

\* ------------------------------------------------------------ thread names
Workers == {"Worker-1", "Worker-2"}
Submitters == {"submit-1", "submit-2"}
Pollers == {"poll-1"}
Statsers == {"stats-1"}
Batchers == {"batch-1"}
\* client.py: the threads of the ThreadPoolExecutor
PoolThreads == {"pool-1", "pool-2"}

\* the identifiers uuid4 produces, and one it never does
JobIds == 1 .. MaxJobs
NeverIssued == MaxJobs + 1
Filenames == {"a.pdf"}
Payloads == {"%PDF-1.4"}
\* what the Converter can return / raise
Markdowns == {"# text"}
Failures == {"corrupt file"}

\* Optional[T]: None, or a value
None == << >>
Some(v) == << v >>
IsSet(o) == o # None
Val(o) == o[1]

\* JobStatus and JobStatus.value
QUEUED == "QUEUED"
PROCESSING == "PROCESSING"
COMPLETED == "COMPLETED"
FAILED == "FAILED"
JobStatus == {QUEUED, PROCESSING, COMPLETED, FAILED}
value(s) == CASE s = QUEUED -> "queued"
              [] s = PROCESSING -> "processing"
              [] s = COMPLETED -> "completed"
              [] s = FAILED -> "failed"

\* datetime.isoformat(): the text of a timestamp
isoformat(t) == << "iso", t >>

\* str(e) of an exception raised with e.args: the argument of
\* Exception("corrupt file"), the empty text with no argument
str(e) == IF e.args = << >> THEN "" ELSE e.args[1]

\* a Job whose started_at defaults to the time of creation
Job_started(job_id, filename, pdf_data, now) ==
    [ job_id |-> job_id, filename |-> filename, pdf_data |-> pdf_data,
      status |-> QUEUED, markdown_result |-> None, image_paths |-> None,
      error |-> None, created_at |-> now, started_at |-> Some(now),
      completed_at |-> None ]

\* the dataclass Job with its defaults; created_at = datetime.now()
Job(job_id, filename, pdf_data, now) ==
    [ job_id |-> job_id, filename |-> filename, pdf_data |-> pdf_data,
      status |-> QUEUED, markdown_result |-> None, image_paths |-> None,
      error |-> None, created_at |-> now, started_at |-> None,
      completed_at |-> None ]

to_dict(job) ==
    [ job_id |-> job.job_id,
      filename |-> job.filename,
      status |-> value(job.status),
      error |-> job.error,
      created_at |-> isoformat(job.created_at),
      started_at |-> IF IsSet(job.started_at)
                     THEN Some(isoformat(Val(job.started_at))) ELSE None,
      completed_at |-> IF IsSet(job.completed_at)
                       THEN Some(isoformat(Val(job.completed_at))) ELSE None,
      has_result |-> job.markdown_result # None ]

\* client.py: the dataclass ConversionStats with its defaults (the counters
\* process_pdf updates, and the error list)
ConversionStats == [ submitted |-> 0, completed |-> 0, failed |-> 0, errors |-> << >> ]

VARIABLES
    jobs,             \* self.jobs: job_id -> Job
    job_queue,        \* self.job_queue: FIFO of job ids
    unfinished_tasks, \* job_queue.unfinished_tasks
    lock,             \* self.lock: "free" or the thread holding it
    stop_event,       \* self.stop_event
    workers,          \* self.workers: the started worker threads
    clock,            \* datetime.now(): the last time read
    ticking,          \* whether the clock moves between two reads in this run
    colliding,        \* whether uuid4 produces an identifier twice in this run
    wpc, wjob_id, wout,     \* _worker: position, job_id, Converter outcome
    spc, sjob,              \* submit_job: position, the Job being submitted
    ppc, pjob_id,     \* a request to /status or /result: position, job_id
    tpc, tstats,      \* a request to /stats: position, the values read so far
    bpc, bjob_ids, bresults,  \* a request to /batch/status: position, job_ids, results
    mpc, mjoined,     \* the thread that calls stop(): position, the workers joined
    cstats,           \* client.py: the ConversionStats shared by the pool's threads
    ctodo,            \* client.py: the files not yet handed to a thread of the pool
    cpc, cfile, creg, \* client.py process_pdf: position, file, the counter value read
    cerror,           \* client.py process_pdf: the local `error`
    coutcome,         \* client.py: file -> what process_pdf returned for it
    generated,        \* ids uuid4 has produced
    calls,            \* number of submit_job calls begun
    inserted,         \* ids put in the registry and not yet taken from the queue,
                      \* in the order they were put in the registry
    returned,         \* ids submit_job has returned
    dequeuedBy,       \* job_id -> the workers whose get() returned it
    invoked,          \* job_id -> number of Converter invocations
    raised,           \* job_id -> what the Converter raised for it
    afterFailure,     \* ids produced when some job had already failed
    seen              \* the job's state when /result called get_job_result

vars == << jobs, job_queue, unfinished_tasks, lock, stop_event, workers, clock, ticking,
           colliding, wpc, wjob_id, wout, spc, sjob, ppc, pjob_id, tpc, tstats,
           bpc, bjob_ids, bresults, mpc, mjoined, cstats, ctodo, cpc, cfile, creg, cerror, coutcome,
           generated, returned, dequeuedBy, invoked, raised, seen, afterFailure,
           calls, inserted >>

shared == << jobs, job_queue, unfinished_tasks, lock, stop_event, workers, clock, ticking,
            colliding >>
wvars == << wpc, wjob_id, wout >>
svars == << spc, sjob >>
pvars == << ppc, pjob_id >>
tvars == << tpc, tstats >>
bvars == << bpc, bjob_ids, bresults >>
mvars == << mpc, mjoined >>
cvars == << cstats, ctodo, cpc, cfile, creg, cerror, coutcome >>
\* the threads that take no part in most operations
xvars == << bvars, mvars, cvars >>
ghosts == << generated, returned, dequeuedBy, invoked, raised, seen, afterFailure,
            calls, inserted >>

\* the state of job_id in the registry, "unknown" when it has no record
StateOf(js, job_id) == IF job_id \in DOMAIN js THEN js[job_id].status ELSE "unknown"

\* QueueManager.__init__(num_workers): the manager built with the worker
\* threads `pool`, and the request threads `callers` that submit to it
Built(pool, callers) ==
    /\ jobs = << >>
    /\ job_queue = << >>
    /\ unfinished_tasks = 0
    /\ lock = "free"
    /\ stop_event = FALSE
    /\ workers = {}
    /\ clock = 0
    /\ wpc = [w \in Workers |-> IF w \in pool THEN "unstarted" ELSE "absent"]
    /\ wjob_id = [w \in Workers |-> None]
    /\ wout = [w \in Workers |-> None]
    /\ spc = [s \in Submitters |-> IF s \in callers THEN "idle" ELSE "absent"]
    /\ sjob = [s \in Submitters |-> None]
    /\ ppc = [p \in Pollers |-> "idle"]
    /\ pjob_id = [p \in Pollers |-> None]
    /\ tpc = [t \in Statsers |-> "idle"]
    /\ tstats = [t \in Statsers |-> << >>]
    /\ bpc = [b \in Batchers |-> "idle"]
    /\ bjob_ids = [b \in Batchers |-> << >>]
    /\ bresults = [b \in Batchers |-> << >>]
    /\ mpc = "serving"
    /\ mjoined = {}
    /\ cstats = ConversionStats
    /\ ctodo = [i \in 1 .. MaxFiles |-> i]
    /\ cpc = [t \in PoolThreads |-> "idle"]
    /\ cfile = [t \in PoolThreads |-> None]
    /\ creg = [t \in PoolThreads |-> None]
    /\ cerror = [t \in PoolThreads |-> None]
    /\ coutcome = [f \in 1 .. MaxFiles |-> "pending"]
    /\ generated = {}
    /\ returned = {}
    /\ dequeuedBy = [j \in JobIds |-> {}]
    /\ invoked = [j \in JobIds |-> 0]
    /\ raised = [j \in JobIds |-> None]
    /\ seen = [p \in Pollers |-> None]
    /\ afterFailure = {}
    /\ calls = 0
    /\ inserted = << >>

\* self.num_workers
num_workers == Cardinality({ w \in Workers : wpc[w] # "absent" })

\* the manager of server.py, with every thread of the model; uuid4 gives each
\* job an identifier of its own
Constructed == Built(Workers, Submitters) /\ colliding = FALSE

\* a run short enough for every datetime.now() to read the same time
Init == Constructed /\ ticking = FALSE

\* a run in which the clock may move between any two reads: one worker, and
\* two threads that submit
ClockInit == Built({"Worker-1"}, Submitters) /\ colliding = FALSE /\ ticking = TRUE

\* datetime.now(): what a clock that never goes back can read after c
now(c) == IF ticking THEN c .. MaxClock ELSE {c}

\* ------------------------------------------------------- QueueManager.start
start ==
    /\ workers = {}
    /\ workers' = { w \in Workers : wpc[w] = "unstarted" }
    /\ wpc' = [w \in Workers |-> IF wpc[w] = "unstarted" THEN "loop" ELSE wpc[w]]
    /\ UNCHANGED << jobs, job_queue, unfinished_tasks, lock, stop_event, clock, ticking, colliding >>
    /\ UNCHANGED << wjob_id, wout, svars, xvars, pvars, tvars, ghosts >>

\* -------------------------------------------------------- QueueManager.stop
\* self.stop_event.set(); the caller goes on to the loop over self.workers
stop ==
    /\ ~stop_event
    /\ stop_event' = TRUE
    /\ mpc' = "join"
    /\ UNCHANGED << jobs, job_queue, unfinished_tasks, lock, workers, clock, ticking, colliding >>
    /\ UNCHANGED << wvars, svars, bvars, mjoined, cvars, pvars, tvars, ghosts >>

\* self.workers in the order start() appended the threads
WorkerOrder == << "Worker-1", "Worker-2" >>
\* the worker the loop `for worker in self.workers` joins next
NextJoin == { w \in workers \ mjoined :
                \A v \in workers \ mjoined :
                    \E i, k \in DOMAIN WorkerOrder :
                        WorkerOrder[i] = w /\ WorkerOrder[k] = v /\ i <= k }

\* worker.join(timeout=5.0): returns when the thread has ended, or when five
\* seconds have passed.  Five seconds pass only while the thread is inside
\* process_pdf, whose duration nothing bounds: get() waits one second at most
\* and the other steps of _worker are short.
stop_join ==
    /\ mpc = "join"
    /\ \E w \in NextJoin :
          /\ wpc[w] \in {"stopped", "process"}
          /\ mjoined' = mjoined \cup {w}
    /\ UNCHANGED << shared, wvars, svars, bvars, mpc, cvars, pvars, tvars, ghosts >>

\* the loop is over: logger.info("Workers stopped") and stop() returns
stop_return ==
    /\ mpc = "join"
    /\ NextJoin = {}
    /\ mpc' = "returned"
    /\ UNCHANGED << shared, wvars, svars, bvars, mjoined, cvars, pvars, tvars, ghosts >>

\* --------------------------------------------------- QueueManager.submit_job
\* uuid.uuid4(): a random identifier.  It is one never produced before (the
\* identifiers are interchangeable, so the smallest unused one stands for any
\* of them) or, in a run where identifiers collide, one produced before.
uuid4(used) ==
    (IF JobIds \ used = {} THEN {}
     ELSE { CHOOSE i \in JobIds \ used : \A k \in JobIds \ used : i <= k })
    \cup (IF colliding THEN used ELSE {})

\* the registry rebuilt around the new record, the records it held lost
RegistryInsert_alone(js, job) == (job.job_id :> job)
\* self.jobs[job_id] = job
RegistryInsert(js, job) == (job.job_id :> job) @@ js

\* a put that places the item at the head of the queue
queue_put_lifo(q, item) == << item >> \o q
\* queue.Queue.put on the unbounded queue; queue_put_full drops the item
\* when the queue already holds one
queue_put_full(q, item) == IF q # << >> THEN q ELSE Append(q, item)
queue_put(q, item) == Append(q, item)

\* job_id = str(uuid.uuid4()); job = Job(...)
submit_job_new(s) ==
    /\ spc[s] = "idle"
    /\ calls < MaxJobs
    /\ calls' = calls + 1
    /\ \E job_id \in uuid4(generated), filename \in Filenames,
          pdf_data \in Payloads, t \in now(clock) :
         /\ sjob' = [sjob EXCEPT ![s] = Some(Job(job_id, filename, pdf_data, t))]
         /\ generated' = generated \cup {job_id}
         /\ afterFailure' = IF \E k \in DOMAIN jobs : jobs[k].status = FAILED
                            THEN afterFailure \cup {job_id} ELSE afterFailure
         /\ clock' = t
    /\ spc' = [spc EXCEPT ![s] = "insert"]
    /\ UNCHANGED << jobs, job_queue, unfinished_tasks, lock, stop_event, workers, ticking, colliding >>
    /\ UNCHANGED << wvars, pvars, xvars, tvars, returned, dequeuedBy, invoked, raised, seen, inserted >>

\* with self.lock:
submit_job_lock(s) ==
    /\ spc[s] = "insert"
    /\ lock = "free"
    /\ lock' = s
    /\ spc' = [spc EXCEPT ![s] = "insert_locked"]
    /\ UNCHANGED << jobs, job_queue, unfinished_tasks, stop_event, workers, clock, ticking, colliding >>
    /\ UNCHANGED << wvars, sjob, pvars, xvars, tvars, ghosts >>

\* a submission that enqueues the identifier without a record in the registry
submit_job_insert_skipped(s) ==
    /\ spc[s] = "insert_locked"
    /\ lock = s
    /\ lock' = "free"
    /\ inserted' = Append(inserted, Val(sjob[s]).job_id)
    /\ spc' = [spc EXCEPT ![s] = "put"]
    /\ UNCHANGED << jobs, job_queue, unfinished_tasks, stop_event, workers, clock, ticking, colliding >>
    /\ UNCHANGED << wvars, sjob, pvars, xvars, tvars, generated, returned, dequeuedBy, invoked, raised,
                    seen, afterFailure, calls >>

\*     self.jobs[job_id] = job
submit_job_insert(s) ==
    /\ spc[s] = "insert_locked"
    /\ lock = s
    /\ jobs' = RegistryInsert(jobs, Val(sjob[s]))
    /\ lock' = "free"
    /\ inserted' = Append(inserted, Val(sjob[s]).job_id)
    /\ spc' = [spc EXCEPT ![s] = "put"]
    /\ UNCHANGED << job_queue, unfinished_tasks, stop_event, workers, clock, ticking, colliding >>
    /\ UNCHANGED << wvars, sjob, pvars, xvars, tvars, generated, returned, dequeuedBy, invoked, raised,
                    seen, afterFailure, calls >>

\* self.job_queue.put(job_id); return job_id
submit_job_put(s) ==
    /\ spc[s] = "put"
    /\ job_queue' = queue_put(job_queue, Val(sjob[s]).job_id)
    /\ unfinished_tasks' = unfinished_tasks + 1
    /\ returned' = returned \cup {Val(sjob[s]).job_id}
    /\ spc' = [spc EXCEPT ![s] = "idle"]
    /\ sjob' = [sjob EXCEPT ![s] = None]
    /\ UNCHANGED << jobs, lock, stop_event, workers, clock, ticking, colliding >>
    /\ UNCHANGED << wvars, pvars, xvars, tvars, generated, dequeuedBy, invoked, raised, seen, afterFailure, calls, inserted >>

submit_job(s) ==
    \/ submit_job_new(s)
    \/ submit_job_lock(s)
    \/ submit_job_insert(s)
    \/ submit_job_put(s)

\* ------------------------------------------------------ QueueManager._worker
\* The statements of the worker's three writing blocks, one step each; the
\* worker holds self.lock from the first to the last statement of a block.

\* job.status = JobStatus.PROCESSING
start_status(job) == [job EXCEPT !.status = PROCESSING]
\* started_at given the zero timestamp in place of the time read
start_started_at_epoch(job, t) == [job EXCEPT !.started_at = Some(0)]
\* job.started_at = datetime.now()
start_started_at(job, t) == [job EXCEPT !.started_at = Some(t)]

\* the status write left out of the block
complete_status_omitted(job) == job
\* job.status = JobStatus.COMPLETED
complete_status(job) == [job EXCEPT !.status = COMPLETED]
\* job.markdown_result = markdown_text
complete_markdown_result(job, out) == [job EXCEPT !.markdown_result = Some(out.markdown_text)]
\* job.image_paths = image_paths
complete_image_paths(job, out) == [job EXCEPT !.image_paths = Some(out.image_paths)]
\* a completion that also stamps the start again
complete_completed_at_restamp(job, t) ==
    [job EXCEPT !.completed_at = Some(t), !.started_at = Some(t)]
\* job.completed_at = datetime.now()
complete_completed_at(job, t) == [job EXCEPT !.completed_at = Some(t)]

\* the status write left out of the failure block
fail_status_omitted(job) == job
\* a failed job put back for another attempt
fail_status_retry(job) == [job EXCEPT !.status = QUEUED]
\* job.status = JobStatus.FAILED
fail_status(job) == [job EXCEPT !.status = FAILED]
\* a fixed text stored in place of the exception's message
fail_error_generic(job, e) == [job EXCEPT !.error = Some("conversion failed")]
\* job.error = str(e)
fail_error(job, e) == [job EXCEPT !.error = Some(str(e))]
\* job.completed_at = datetime.now()
fail_completed_at(job, t) == [job EXCEPT !.completed_at = Some(t)]

\* pdf_processor.process_pdf(job.pdf_data): returns (markdown_text, image_paths),
\* image_paths empty as no output_dir is passed, or raises
process_pdf(pdf_data) ==
    { [kind |-> "return", markdown_text |-> m, image_paths |-> << >>] : m \in Markdowns }
    \cup { [kind |-> "raise", args |-> << f >>] : f \in Failures }

\* queue.Queue.get on a queue that holds items: the item, and the queue left;
\* queue_peek leaves the item in the queue
queue_peek(q) == [ item |-> Head(q), rest |-> q ]
queue_get(q) == [ item |-> Head(q), rest |-> Tail(q) ]

\* a loop that never looks at the stop signal: while True:
worker_loop_forever(w) ==
    /\ wpc[w] = "loop"
    /\ wpc' = [wpc EXCEPT ![w] = "get"]
    /\ UNCHANGED << shared, wjob_id, wout, svars, xvars, pvars, tvars, ghosts >>

\* while not self.stop_event.is_set():
worker_loop(w) ==
    /\ wpc[w] = "loop"
    /\ wpc' = [wpc EXCEPT ![w] = IF stop_event THEN "stopped" ELSE "get"]
    /\ UNCHANGED << shared, wjob_id, wout, svars, xvars, pvars, tvars, ghosts >>

\* job_id = self.job_queue.get(timeout=1.0); except queue.Empty: continue
worker_get(w) ==
    /\ wpc[w] = "get"
    /\ IF job_queue # << >>
       THEN /\ wjob_id' = [wjob_id EXCEPT ![w] = Some(queue_get(job_queue).item)]
            /\ job_queue' = queue_get(job_queue).rest
            /\ dequeuedBy' = [dequeuedBy EXCEPT ![queue_get(job_queue).item] = @ \cup {w}]
            /\ inserted' = SelectSeq(inserted, LAMBDA j : j # queue_get(job_queue).item)
            /\ wpc' = [wpc EXCEPT ![w] = "fetch"]
       ELSE /\ wpc' = [wpc EXCEPT ![w] = "loop"]
            /\ UNCHANGED << wjob_id, job_queue, dequeuedBy, inserted >>
    /\ UNCHANGED << jobs, unfinished_tasks, lock, stop_event, workers, clock, ticking, colliding >>
    /\ UNCHANGED << wout, svars, xvars, pvars, tvars, generated, returned, invoked, raised, seen, afterFailure, calls >>

\* with self.lock:   (entering any of the worker's four blocks)
worker_lock(w) ==
    /\ wpc[w] \in {"fetch", "start", "complete", "fail"}
    /\ lock = "free"
    /\ lock' = w
    /\ UNCHANGED << jobs, job_queue, unfinished_tasks, stop_event, workers, clock, ticking, colliding >>
    /\ UNCHANGED << wvars, svars, xvars, pvars, tvars, ghosts >>

\* job = self.jobs.get(job_id); if not job: continue
worker_fetch(w) ==
    /\ wpc[w] = "fetch"
    /\ lock = w
    /\ lock' = "free"
    /\ IF Val(wjob_id[w]) \in DOMAIN jobs
       THEN wpc' = [wpc EXCEPT ![w] = "start"] /\ UNCHANGED wjob_id
       ELSE /\ wpc' = [wpc EXCEPT ![w] = "loop"]
            /\ wjob_id' = [wjob_id EXCEPT ![w] = None]
    /\ UNCHANGED << jobs, job_queue, unfinished_tasks, stop_event, workers, clock, ticking, colliding >>
    /\ UNCHANGED << wout, svars, xvars, pvars, tvars, ghosts >>

\* the worker's local `job`: the record fetched for its job_id
job_of(w) == jobs[Val(wjob_id[w])]

\* one statement of a block, leaving `job` as written; the lock is kept
worker_write(w, at, to, job) ==
    /\ wpc[w] = at
    /\ lock = w
    /\ jobs' = [jobs EXCEPT ![Val(wjob_id[w])] = job]
    /\ wpc' = [wpc EXCEPT ![w] = to]
    /\ UNCHANGED << job_queue, unfinished_tasks, lock, stop_event, workers, clock, ticking, colliding >>
    /\ UNCHANGED << wjob_id, wout, svars, xvars, pvars, tvars, ghosts >>

\* a block that does not end with its last statement: the lock is kept for
\* what follows it
worker_stamp_held(w, at, to, job, t) ==
    /\ wpc[w] = at
    /\ lock = w
    /\ jobs' = [jobs EXCEPT ![Val(wjob_id[w])] = job]
    /\ clock' = t
    /\ wpc' = [wpc EXCEPT ![w] = to]
    /\ UNCHANGED << job_queue, unfinished_tasks, lock, stop_event, workers, ticking, colliding >>
    /\ UNCHANGED << wjob_id, wout, svars, xvars, pvars, tvars, ghosts >>

\* the last statement of a block, <field> = datetime.now() read as t, and
\* the release of the lock
worker_stamp(w, at, to, job, t) ==
    /\ wpc[w] = at
    /\ lock = w
    /\ lock' = "free"
    /\ jobs' = [jobs EXCEPT ![Val(wjob_id[w])] = job]
    /\ clock' = t
    /\ wpc' = [wpc EXCEPT ![w] = to]
    /\ UNCHANGED << job_queue, unfinished_tasks, stop_event, workers, ticking, colliding >>
    /\ UNCHANGED << wjob_id, wout, svars, xvars, pvars, tvars, ghosts >>

\* with self.lock: job.status = PROCESSING; job.started_at = datetime.now()
worker_start(w) ==
    \/ worker_write(w, "start", "start_started_at", start_status(job_of(w)))
    \/ \E t \in now(clock) :
          worker_stamp(w, "start_started_at", "process", start_started_at(job_of(w), t), t)

\* markdown_text, image_paths = self.pdf_processor.process_pdf(job.pdf_data)
worker_process(w) ==
    /\ wpc[w] = "process"
    /\ \E out \in process_pdf(job_of(w).pdf_data) :
         /\ wout' = [wout EXCEPT ![w] = Some(out)]
         /\ wpc' = [wpc EXCEPT ![w] = IF out.kind = "return" THEN "complete" ELSE "fail"]
         /\ raised' = [raised EXCEPT ![Val(wjob_id[w])] =
                          IF out.kind = "raise" THEN Some(out.args[1]) ELSE @]
    /\ invoked' = [invoked EXCEPT ![Val(wjob_id[w])] = @ + 1]
    /\ UNCHANGED << shared, wjob_id, svars, xvars, pvars, tvars, generated, returned, dequeuedBy, seen, afterFailure, calls, inserted >>

\* with self.lock: status = COMPLETED; markdown_result; image_paths; completed_at
worker_complete(w) ==
    \/ worker_write(w, "complete", "complete_markdown_result", complete_status(job_of(w)))
    \/ worker_write(w, "complete_markdown_result", "complete_image_paths",
                    complete_markdown_result(job_of(w), Val(wout[w])))
    \/ worker_write(w, "complete_image_paths", "complete_completed_at",
                    complete_image_paths(job_of(w), Val(wout[w])))
    \/ \E t \in now(clock) :
          worker_stamp(w, "complete_completed_at", "task_done",
                       complete_completed_at(job_of(w), t), t)

\* except Exception as e: with self.lock: status = FAILED; error = str(e); completed_at
worker_fail(w) ==
    \/ worker_write(w, "fail", "fail_error", fail_status(job_of(w)))
    \/ worker_write(w, "fail_error", "fail_completed_at", fail_error(job_of(w), Val(wout[w])))
    \/ \E t \in now(clock) :
          worker_stamp(w, "fail_completed_at", "task_done", fail_completed_at(job_of(w), t), t)

\* a worker that goes from one job to the next one without the loop test
worker_task_done_next(w) ==
    /\ wpc[w] = "task_done"
    /\ unfinished_tasks' = unfinished_tasks - 1
    /\ wpc' = [wpc EXCEPT ![w] = "get"]
    /\ wjob_id' = [wjob_id EXCEPT ![w] = None]
    /\ wout' = [wout EXCEPT ![w] = None]
    /\ UNCHANGED << jobs, job_queue, lock, stop_event, workers, clock, ticking, colliding >>
    /\ UNCHANGED << svars, xvars, pvars, tvars, ghosts >>

\* a worker whose loop ends when the Converter raised
worker_task_done_exit(w) ==
    /\ wpc[w] = "task_done"
    /\ unfinished_tasks' = unfinished_tasks - 1
    /\ wpc' = [wpc EXCEPT ![w] = IF Val(wout[w]).kind = "raise" THEN "stopped" ELSE "loop"]
    /\ wjob_id' = [wjob_id EXCEPT ![w] = None]
    /\ wout' = [wout EXCEPT ![w] = None]
    /\ UNCHANGED << jobs, job_queue, lock, stop_event, workers, clock, ticking, colliding >>
    /\ UNCHANGED << svars, xvars, pvars, tvars, ghosts >>

\* finally: self.job_queue.task_done()
worker_task_done(w) ==
    /\ wpc[w] = "task_done"
    /\ unfinished_tasks' = unfinished_tasks - 1
    /\ wpc' = [wpc EXCEPT ![w] = "loop"]
    /\ wjob_id' = [wjob_id EXCEPT ![w] = None]
    /\ wout' = [wout EXCEPT ![w] = None]
    /\ UNCHANGED << jobs, job_queue, lock, stop_event, workers, clock, ticking, colliding >>
    /\ UNCHANGED << svars, xvars, pvars, tvars, ghosts >>

worker(w) ==
    \/ worker_loop(w)
    \/ worker_get(w)
    \/ worker_lock(w)
    \/ worker_fetch(w)
    \/ worker_start(w)
    \/ worker_process(w)
    \/ worker_complete(w)
    \/ worker_fail(w)
    \/ worker_task_done(w)

\* a lookup that no longer finds a job once it is Completed or Failed
get_job_status_evicted(js, job_id) ==
    IF job_id \in DOMAIN js /\ js[job_id].status \in {QUEUED, PROCESSING}
    THEN Some(to_dict(js[job_id])) ELSE None

\* a lookup answered from the view made when the job was submitted
get_job_status_stale(js, job_id) ==
    IF job_id \in DOMAIN js
    THEN Some(to_dict(Job(job_id, js[job_id].filename, js[job_id].pdf_data,
                          js[job_id].created_at)))
    ELSE None

\* ------------------------------------------- QueueManager.get_job_status
\* job = self.jobs.get(job_id); if job: return job.to_dict(); return None
get_job_status(js, job_id) ==
    IF job_id \in DOMAIN js THEN Some(to_dict(js[job_id])) ELSE None

\* get_job_result without its branch for failed jobs
get_job_result_no_failed(js, job_id) ==
    IF job_id \notin DOMAIN js THEN None
    ELSE LET job == js[job_id] IN
         IF job.status = COMPLETED
         THEN Some([ job_id |-> job_id,
                     filename |-> job.filename,
                     markdown |-> job.markdown_result,
                     image_count |-> 0,
                     completed_at |-> isoformat(Val(job.completed_at)) ])
         ELSE None

\* ------------------------------------------- QueueManager.get_job_result
get_job_result(js, job_id) ==
    IF job_id \notin DOMAIN js THEN None
    ELSE LET job == js[job_id] IN
         IF job.status = COMPLETED
         THEN Some([ job_id |-> job_id,
                     filename |-> job.filename,
                     markdown |-> job.markdown_result,
                     image_count |-> IF IsSet(job.image_paths) /\ Val(job.image_paths) # << >>
                                     THEN Len(Val(job.image_paths)) ELSE 0,
                     completed_at |-> isoformat(Val(job.completed_at)) ])
         ELSE IF job.status = FAILED
         THEN Some([ job_id |-> job_id,
                     filename |-> job.filename,
                     error |-> job.error,
                     status |-> "failed" ])
         ELSE None

\* ----------------------------------------------------- server.py responses
NotFound == [ code |-> 404, body |-> [ error |-> "Job not found" ] ]
Ok(body) == [ code |-> 200, body |-> body ]
\* the 202 answer of /result
NotCompletedYet(job_id, status) ==
    [ code |-> 202,
      body |-> [ job_id |-> job_id, status |-> status.status,
                 message |-> "Job not completed yet" ] ]

\* get_status: if not status: 404, else jsonify(status)
status_response(status) == IF ~IsSet(status) THEN NotFound ELSE Ok(Val(status))

\* get_result, second half: the job had no result
no_result_response(job_id, status) ==
    IF ~IsSet(status) THEN NotFound ELSE NotCompletedYet(job_id, Val(status))

\* the identifiers a client can ask about: those submit_job has returned to
\* it, and strings that are no identifier of any job
Known == returned \cup {NeverIssued}

\* a status lookup that reads the registry without taking self.lock
get_status_unlocked(p) ==
    /\ ppc[p] = "idle"
    /\ \E job_id \in Known : pjob_id' = [pjob_id EXCEPT ![p] = Some(job_id)]
    /\ ppc' = [ppc EXCEPT ![p] = "status"]
    /\ UNCHANGED << shared, wvars, svars, xvars, tvars, ghosts >>

\* GET /status/<job_id>: queue_manager.get_job_status(job_id), `with self.lock:`
get_status_lock(p) ==
    /\ ppc[p] = "idle"
    /\ lock = "free"
    /\ lock' = p
    /\ \E job_id \in Known : pjob_id' = [pjob_id EXCEPT ![p] = Some(job_id)]
    /\ ppc' = [ppc EXCEPT ![p] = "status"]
    /\ UNCHANGED << jobs, job_queue, unfinished_tasks, stop_event, workers, clock, ticking, colliding >>
    /\ UNCHANGED << wvars, svars, xvars, tvars, ghosts >>

\* GET /status/<job_id>: the lookup, and the answer it gives
get_status_response(p) == status_response(get_job_status(jobs, Val(pjob_id[p])))

\* a lookup that drops the record of a job it has reported as finished
get_status_evicting(p) ==
    /\ ppc[p] = "status"
    /\ lock = p
    /\ lock' = "free"
    /\ ppc' = [ppc EXCEPT ![p] = "idle"]
    /\ pjob_id' = [pjob_id EXCEPT ![p] = None]
    /\ jobs' = IF StateOf(jobs, Val(pjob_id[p])) \in {COMPLETED, FAILED}
               THEN [j \in DOMAIN jobs \ {Val(pjob_id[p])} |-> jobs[j]]
               ELSE jobs
    /\ UNCHANGED << job_queue, unfinished_tasks, stop_event, workers, clock, ticking, colliding >>
    /\ UNCHANGED << wvars, svars, xvars, tvars, ghosts >>

get_status(p) ==
    /\ ppc[p] = "status"
    /\ lock = p
    /\ lock' = "free"
    /\ ppc' = [ppc EXCEPT ![p] = "idle"]
    /\ pjob_id' = [pjob_id EXCEPT ![p] = None]
    /\ UNCHANGED << jobs, job_queue, unfinished_tasks, stop_event, workers, clock, ticking, colliding >>
    /\ UNCHANGED << wvars, svars, xvars, tvars, ghosts >>

\* GET /result/<job_id>: queue_manager.get_job_result(job_id), `with self.lock:`
get_result_lock(p) ==
    /\ ppc[p] = "idle"
    /\ lock = "free"
    /\ lock' = p
    /\ \E job_id \in Known : pjob_id' = [pjob_id EXCEPT ![p] = Some(job_id)]
    /\ ppc' = [ppc EXCEPT ![p] = "result"]
    /\ UNCHANGED << jobs, job_queue, unfinished_tasks, stop_event, workers, clock, ticking, colliding >>
    /\ UNCHANGED << wvars, svars, xvars, tvars, ghosts >>

\* result = queue_manager.get_job_result(job_id); if result: jsonify(result)
get_result(p) ==
    /\ ppc[p] = "result"
    /\ lock = p
    /\ lock' = "free"
    /\ IF IsSet(get_job_result(jobs, Val(pjob_id[p])))
       THEN /\ ppc' = [ppc EXCEPT ![p] = "idle"]
            /\ pjob_id' = [pjob_id EXCEPT ![p] = None]
            /\ UNCHANGED seen
       ELSE /\ ppc' = [ppc EXCEPT ![p] = "result_status"]
            /\ seen' = [seen EXCEPT ![p] = Some(StateOf(jobs, Val(pjob_id[p])))]
            /\ UNCHANGED pjob_id
    /\ UNCHANGED << jobs, job_queue, unfinished_tasks, stop_event, workers, clock, ticking, colliding >>
    /\ UNCHANGED << wvars, svars, xvars, tvars, generated, returned, dequeuedBy, invoked, raised, afterFailure, calls, inserted >>

\* if not result: status = queue_manager.get_job_status(job_id), `with self.lock:`
get_result_status_lock(p) ==
    /\ ppc[p] = "result_status"
    /\ lock = "free"
    /\ lock' = p
    /\ ppc' = [ppc EXCEPT ![p] = "result_status_locked"]
    /\ UNCHANGED << jobs, job_queue, unfinished_tasks, stop_event, workers, clock, ticking, colliding >>
    /\ UNCHANGED << wvars, svars, xvars, tvars, pjob_id, ghosts >>

\* if not status: 404; else 202 with status["status"]
get_result_status(p) ==
    /\ ppc[p] = "result_status_locked"
    /\ lock = p
    /\ lock' = "free"
    /\ ppc' = [ppc EXCEPT ![p] = "idle"]
    /\ pjob_id' = [pjob_id EXCEPT ![p] = None]
    /\ seen' = [seen EXCEPT ![p] = None]
    /\ UNCHANGED << jobs, job_queue, unfinished_tasks, stop_event, workers, clock, ticking, colliding >>
    /\ UNCHANGED << wvars, svars, xvars, tvars, generated, returned, dequeuedBy, invoked, raised, afterFailure, calls, inserted >>

\* the answer of GET /result/<job_id>, where the request is about to give one
get_result_response(p) ==
    IF ppc[p] = "result"
    THEN Ok(Val(get_job_result(jobs, Val(pjob_id[p]))))
    ELSE no_result_response(Val(pjob_id[p]), get_job_status(jobs, Val(pjob_id[p])))

poll(p) ==
    \/ get_status_lock(p)
    \/ get_status(p)
    \/ get_result_lock(p)
    \/ get_result(p)
    \/ get_result_status_lock(p)
    \/ get_result_status(p)

\* ------------------------------------------------- server.py batch_status
\* the lists of at most n elements of S
Lists(S, n) == UNION { [1 .. k -> S] : k \in 0 .. n }

\* an entry for an unknown identifier that does not say which one it is
batch_entry_anonymous(status, job_id) ==
    IF IsSet(status) THEN Val(status) ELSE [ error |-> "Job not found" ]

\* if status: results.append(status)
\* else: results.append({"job_id": job_id, "error": "Job not found"})
batch_entry(status, job_id) ==
    IF IsSet(status) THEN Val(status)
    ELSE [ job_id |-> job_id, error |-> "Job not found" ]

\* POST /batch/status with a list job_ids; results = []
batch_status_request(b) ==
    /\ bpc[b] = "idle"
    /\ \E job_ids \in Lists(Known, MaxBatch) : bjob_ids' = [bjob_ids EXCEPT ![b] = job_ids]
    /\ bresults' = [bresults EXCEPT ![b] = << >>]
    /\ bpc' = [bpc EXCEPT ![b] = "loop"]
    /\ UNCHANGED << shared, wvars, svars, mvars, cvars, pvars, tvars, ghosts >>

\* for job_id in job_ids: queue_manager.get_job_status(job_id), `with self.lock:`
batch_status_lock(b) ==
    /\ bpc[b] = "loop"
    /\ Len(bresults[b]) < Len(bjob_ids[b])
    /\ lock = "free"
    /\ lock' = b
    /\ bpc' = [bpc EXCEPT ![b] = "status"]
    /\ UNCHANGED << jobs, job_queue, unfinished_tasks, stop_event, workers, clock, ticking, colliding >>
    /\ UNCHANGED << wvars, svars, bjob_ids, bresults, mvars, cvars, pvars, tvars, ghosts >>

\* the job_id the loop is at
batch_job_id(b) == bjob_ids[b][Len(bresults[b]) + 1]

\* status = get_job_status(job_id); results.append(...)
batch_status_append(b) ==
    /\ bpc[b] = "status"
    /\ lock = b
    /\ lock' = "free"
    /\ bresults' = [bresults EXCEPT ![b] =
                       Append(@, batch_entry(get_job_status(jobs, batch_job_id(b)),
                                             batch_job_id(b)))]
    /\ bpc' = [bpc EXCEPT ![b] = "loop"]
    /\ UNCHANGED << jobs, job_queue, unfinished_tasks, stop_event, workers, clock, ticking, colliding >>
    /\ UNCHANGED << wvars, svars, bjob_ids, mvars, cvars, pvars, tvars, ghosts >>

\* the loop is over: return jsonify({"results": results})
batch_status_return(b) ==
    /\ bpc[b] = "loop"
    /\ Len(bresults[b]) = Len(bjob_ids[b])
    /\ bpc' = [bpc EXCEPT ![b] = "return"]
    /\ UNCHANGED << shared, wvars, svars, bjob_ids, bresults, mvars, cvars, pvars, tvars, ghosts >>

\* the answer of POST /batch/status, where the request is about to give it
batch_status_response(b) == Ok([ results |-> bresults[b] ])

\* the answer is sent and the request is over
batch_status_done(b) ==
    /\ bpc[b] = "return"
    /\ bpc' = [bpc EXCEPT ![b] = "idle"]
    /\ bjob_ids' = [bjob_ids EXCEPT ![b] = << >>]
    /\ bresults' = [bresults EXCEPT ![b] = << >>]
    /\ UNCHANGED << shared, wvars, svars, mvars, cvars, pvars, tvars, ghosts >>

batch_status(b) ==
    \/ batch_status_request(b)
    \/ batch_status_lock(b)
    \/ batch_status_append(b)
    \/ batch_status_return(b)
    \/ batch_status_done(b)

\* ------------------------------------------- QueueManager.get_queue_stats
\* sum(1 for j in self.jobs.values() if j.status == status)
count(js, status) == Cardinality({ j \in DOMAIN js : js[j].status = status })

\* the scan begun without taking self.lock
get_queue_stats_unlocked(t) ==
    /\ tpc[t] = "idle"
    /\ tpc' = [tpc EXCEPT ![t] = "queued"]
    /\ UNCHANGED << shared, wvars, svars, xvars, pvars, tstats, ghosts >>

\* GET /stats: queue_manager.get_queue_stats(), `with self.lock:`
get_queue_stats_lock(t) ==
    /\ tpc[t] = "idle"
    /\ lock = "free"
    /\ lock' = t
    /\ tpc' = [tpc EXCEPT ![t] = "queued"]
    /\ UNCHANGED << jobs, job_queue, unfinished_tasks, stop_event, workers, clock, ticking, colliding >>
    /\ UNCHANGED << wvars, svars, xvars, pvars, tstats, ghosts >>

\* one statement of get_queue_stats: <field> = v
stats_read(t, at, to, field, v) ==
    /\ tpc[t] = at
    /\ tstats' = [tstats EXCEPT ![t] = (field :> v) @@ @]
    /\ tpc' = [tpc EXCEPT ![t] = to]
    /\ UNCHANGED << jobs, job_queue, unfinished_tasks, stop_event, workers, clock, ticking, colliding >>
    /\ UNCHANGED << wvars, svars, xvars, pvars, ghosts >>

\* queued = sum(...); processing = sum(...); completed = sum(...)
get_queue_stats_queued(t) ==
    stats_read(t, "queued", "processing", "queued", count(jobs, QUEUED)) /\ UNCHANGED lock
get_queue_stats_processing(t) ==
    stats_read(t, "processing", "completed", "processing", count(jobs, PROCESSING))
    /\ UNCHANGED lock
get_queue_stats_completed(t) ==
    stats_read(t, "completed", "failed", "completed", count(jobs, COMPLETED)) /\ UNCHANGED lock
\* failed = sum(...), the last statement of the block: the lock is released
get_queue_stats_failed(t) ==
    stats_read(t, "failed", "queue_size", "failed", count(jobs, FAILED)) /\ lock' = "free"
\* "queue_size": self.job_queue.qsize()
get_queue_stats_queue_size(t) ==
    stats_read(t, "queue_size", "total_jobs", "queue_size", Len(job_queue)) /\ UNCHANGED lock
\* "total_jobs": len(self.jobs)
get_queue_stats_total_jobs(t) ==
    stats_read(t, "total_jobs", "return", "total_jobs", Cardinality(DOMAIN jobs))
    /\ UNCHANGED lock

\* return jsonify(stats)
get_stats_return(t) ==
    /\ tpc[t] = "return"
    /\ tpc' = [tpc EXCEPT ![t] = "idle"]
    /\ tstats' = [tstats EXCEPT ![t] = << >>]
    /\ UNCHANGED << shared, wvars, svars, xvars, pvars, ghosts >>

get_stats(t) ==
    \/ get_queue_stats_lock(t)
    \/ get_queue_stats_queued(t)
    \/ get_queue_stats_processing(t)
    \/ get_queue_stats_completed(t)
    \/ get_queue_stats_failed(t)
    \/ get_queue_stats_queue_size(t)
    \/ get_queue_stats_total_jobs(t)
    \/ get_stats_return(t)

\* ------------------------------------------------------- client.py, main
\* The threads of the ThreadPoolExecutor run worker_process_pdf, hence
\* process_pdf, on the files submitted to the executor, all with the one
\* `stats` object of main.  `stats.x += 1` reads the attribute and then writes
\* it, with no lock around the two: they are two steps.  list.append is one.
\* What the server answers is an input of the thread.

\* the executor hands the next file to a free thread
pool_take(t) ==
    /\ cpc[t] = "idle"
    /\ ctodo # << >>
    /\ cfile' = [cfile EXCEPT ![t] = Some(Head(ctodo))]
    /\ ctodo' = Tail(ctodo)
    /\ cpc' = [cpc EXCEPT ![t] = "submit"]
    /\ UNCHANGED << shared, wvars, svars, bvars, mvars, pvars, tvars, ghosts >>
    /\ UNCHANGED << cstats, creg, cerror, coutcome >>

\* a step of process_pdf that decides where to go on: from `at` to `to`,
\* with the local `error` as given
process_pdf_branch(t, at, to, error) ==
    /\ cpc[t] = at
    /\ cpc' = [cpc EXCEPT ![t] = to]
    /\ cerror' = [cerror EXCEPT ![t] = error]
    /\ UNCHANGED << shared, wvars, svars, bvars, mvars, pvars, tvars, ghosts >>
    /\ UNCHANGED << cstats, ctodo, cfile, creg, coutcome >>

\* job_id = self.submit_pdf(pdf_path); if not job_id: ...
process_pdf_submit(t) ==
    \/ process_pdf_branch(t, "submit", "submitted_load", None)
    \/ process_pdf_branch(t, "submit", "failed_load", Some("Failed to submit"))

\* result = self.wait_for_completion(job_id, filename)
\* if not result or not result.get('markdown'): error = ...
process_pdf_wait(t) ==
    \/ process_pdf_branch(t, "wait", "save", None)
    \/ \E error \in {"Timeout", "Unknown error"} :
          process_pdf_branch(t, "wait", "failed_load", Some(error))

\* with open(output_path, 'w') as f: f.write(result['markdown'])
\* except Exception as e: ...
process_pdf_save(t) ==
    \/ process_pdf_branch(t, "save", "completed_load", None)
    \/ process_pdf_branch(t, "save", "failed_load", Some("Save error"))

\* stats.<field> += 1, first half: the attribute is read
stats_load(t, at, to, field) ==
    /\ cpc[t] = at
    /\ creg' = [creg EXCEPT ![t] = Some(cstats[field])]
    /\ cpc' = [cpc EXCEPT ![t] = to]
    /\ UNCHANGED << shared, wvars, svars, bvars, mvars, pvars, tvars, ghosts >>
    /\ UNCHANGED << cstats, ctodo, cfile, cerror, coutcome >>

\* stats.<field> += 1, second half: the value read plus one is written
stats_store(t, at, to, field) ==
    /\ cpc[t] = at
    /\ cstats' = [cstats EXCEPT ![field] = Val(creg[t]) + 1]
    /\ creg' = [creg EXCEPT ![t] = None]
    /\ cpc' = [cpc EXCEPT ![t] = to]
    /\ UNCHANGED << shared, wvars, svars, bvars, mvars, pvars, tvars, ghosts >>
    /\ UNCHANGED << ctodo, cfile, cerror, coutcome >>

\* stats.submitted += 1
process_pdf_submitted(t) ==
    \/ stats_load(t, "submitted_load", "submitted_store", "submitted")
    \/ stats_store(t, "submitted_store", "wait", "submitted")

\* stats.completed += 1
process_pdf_completed(t) ==
    \/ stats_load(t, "completed_load", "completed_store", "completed")
    \/ stats_store(t, "completed_store", "return", "completed")

\* stats.failed += 1
process_pdf_failed(t) ==
    \/ stats_load(t, "failed_load", "failed_store", "failed")
    \/ stats_store(t, "failed_store", "append", "failed")

\* stats.errors.append((filename, error))
process_pdf_append(t) ==
    /\ cpc[t] = "append"
    /\ cstats' = [cstats EXCEPT !.errors = Append(@, << Val(cfile[t]), Val(cerror[t]) >>)]
    /\ cpc' = [cpc EXCEPT ![t] = "return"]
    /\ UNCHANGED << shared, wvars, svars, bvars, mvars, pvars, tvars, ghosts >>
    /\ UNCHANGED << ctodo, cfile, creg, cerror, coutcome >>

\* return True / return False: the future of the file is done
process_pdf_return(t) ==
    /\ cpc[t] = "return"
    /\ coutcome' = [coutcome EXCEPT ![Val(cfile[t])] =
                        IF IsSet(cerror[t]) THEN Val(cerror[t]) ELSE "completed"]
    /\ cfile' = [cfile EXCEPT ![t] = None]
    /\ cerror' = [cerror EXCEPT ![t] = None]
    /\ cpc' = [cpc EXCEPT ![t] = "idle"]
    /\ UNCHANGED << shared, wvars, svars, bvars, mvars, pvars, tvars, ghosts >>
    /\ UNCHANGED << cstats, ctodo, creg >>

\* worker_process_pdf: return client.process_pdf(pdf_path, stats)
worker_process_pdf(t) ==
    \/ process_pdf_submit(t)
    \/ process_pdf_submitted(t)
    \/ process_pdf_wait(t)
    \/ process_pdf_save(t)
    \/ process_pdf_completed(t)
    \/ process_pdf_failed(t)
    \/ process_pdf_append(t)
    \/ process_pdf_return(t)

\* ------------------------------------------------------------ specification
Next ==
    \/ start
    \/ stop
    \/ \E s \in Submitters : submit_job(s)
    \/ \E w \in Workers : worker(w)
    \/ \E p \in Pollers : poll(p)

Spec == Init /\ [][Next]_vars

\* Fair scheduling: a thread that can take a step takes one, and a thread
\* waiting for self.lock gets it if it is free again and again.  Nothing makes
\* a client submit, poll or stop.
worker_fair(w) ==
    /\ WF_vars(worker_loop(w) \/ worker_get(w) \/ worker_fetch(w) \/ worker_start(w)
                \/ worker_process(w) \/ worker_complete(w) \/ worker_fail(w)
                \/ worker_task_done(w))
    /\ SF_vars(worker_lock(w))

submit_job_fair(s) ==
    /\ WF_vars(submit_job_insert(s) \/ submit_job_put(s))
    /\ SF_vars(submit_job_lock(s))

Fairness ==
    /\ WF_vars(start)
    /\ \A w \in Workers : worker_fair(w)
    /\ \A s \in Submitters : submit_job_fair(s)

\* the pool and its submitters, fairly scheduled
PoolNext ==
    \/ start
    \/ stop
    \/ \E s \in Submitters : submit_job(s)
    \/ \E w \in Workers : worker(w)

\* the whole pool and one caller that submits one job after another
FairInit == Built(Workers, {"submit-1"}) /\ ticking = FALSE /\ colliding = FALSE

FairSpec == FairInit /\ [][PoolNext]_vars /\ Fairness

\* the pool and its submitters under a clock that moves
ClockSpec == ClockInit /\ [][PoolNext]_vars

\* pools of one worker and of every worker of the model
SizedInit ==
    /\ \E pool \in { {"Worker-1"}, Workers } : Built(pool, Submitters)
    /\ ticking = FALSE
    /\ colliding = FALSE

SizedSpec == SizedInit /\ [][PoolNext]_vars

\* a run in which uuid4 may produce an identifier it has produced before
CollisionInit == Built(Workers, Submitters) /\ ticking = FALSE /\ colliding = TRUE

CollisionSpec == CollisionInit /\ [][PoolNext]_vars

\* the pool, its submitters and requests to /stats
StatsNext ==
    \/ PoolNext
    \/ \E t \in Statsers : get_stats(t)

\* a manager with one worker thread and one thread of requests that submit
OneWorkerInit ==
    Built({"Worker-1"}, {"submit-1"}) /\ ticking = FALSE /\ colliding = FALSE

StatsSpec == OneWorkerInit /\ [][StatsNext]_vars

\* one worker, and one caller that submits one job after another
OneWorkerSpec == OneWorkerInit /\ [][PoolNext]_vars

\* the pool, its submitters and the whole of stop(): the signal, the joins
\* and the return
StopNext ==
    \/ PoolNext
    \/ stop_join
    \/ stop_return

StopSpec == Init /\ [][StopNext]_vars

\* the client: the threads of its pool working through the files
ClientNext == \E t \in PoolThreads : pool_take(t) \/ worker_process_pdf(t)

ClientSpec == Init /\ [][ClientNext]_vars

\* the pool, its submitter and requests to /batch/status
BatchNext ==
    \/ PoolNext
    \/ \E b \in Batchers : batch_status(b)

BatchSpec == OneWorkerInit /\ [][BatchNext]_vars

\* The pool, its submitter and one client that sends one request after
\* another, of any of the four kinds that only read: a request begins when no
\* other request is being served.
NoRequest ==
    /\ \A p \in Pollers : ppc[p] = "idle"
    /\ \A b \in Batchers : bpc[b] = "idle"
    /\ \A t \in Statsers : tpc[t] = "idle"

ReadNext ==
    \/ PoolNext
    \/ \E p \in Pollers : (ppc[p] # "idle" \/ NoRequest) /\ poll(p)
    \/ \E b \in Batchers : (bpc[b] # "idle" \/ NoRequest) /\ batch_status(b)
    \/ \E t \in Statsers : (tpc[t] # "idle" \/ NoRequest) /\ get_stats(t)

ReadSpec == OneWorkerInit /\ [][ReadNext]_vars

\* Every kind of request against a pool whose Converter never returns: a
\* worker that has called process_pdf stays in the call.  A thread inside a
\* `with self.lock:` block goes on to its end and a request goes on to its
\* answer; a thread waiting for self.lock gets it if it is free again and
\* again.  Nothing makes a worker take a job or a client send a request.
ServerNext ==
    \/ start
    \/ \E s \in Submitters : submit_job(s)
    \/ \E w \in Workers : worker_loop(w) \/ worker_get(w) \/ worker_lock(w)
                             \/ worker_fetch(w) \/ worker_start(w)
    \/ \E p \in Pollers : poll(p)
    \/ \E t \in Statsers : get_stats(t)

worker_block_fair(w) ==
    WF_vars(worker_fetch(w) \/ worker_start(w) \/ worker_complete(w) \/ worker_fail(w))

poll_fair(p) ==
    /\ WF_vars(get_status(p) \/ get_result(p) \/ get_result_status(p))
    /\ SF_vars(get_result_status_lock(p))

get_stats_fair(t) ==
    WF_vars(get_queue_stats_queued(t) \/ get_queue_stats_processing(t)
            \/ get_queue_stats_completed(t) \/ get_queue_stats_failed(t)
            \/ get_queue_stats_queue_size(t) \/ get_queue_stats_total_jobs(t)
            \/ get_stats_return(t))

RequestFairness ==
    /\ \A w \in Workers : worker_block_fair(w)
    /\ \A s \in Submitters : submit_job_fair(s)
    /\ \A p \in Pollers : poll_fair(p)
    /\ \A t \in Statsers : get_stats_fair(t)

ServerSpec == OneWorkerInit /\ [][ServerNext]_vars /\ RequestFairness

\* ------------------------------------------------------------------ claims
Terminal(j) == j \in DOMAIN jobs /\ jobs[j].status \in {COMPLETED, FAILED}

\* C1: the only changes of a job's state are Queued -> Processing,
\* Processing -> Completed and Processing -> Failed.
C1_ForwardTransitions ==
    [][ \A j \in DOMAIN jobs :
          (j \in DOMAIN jobs' /\ jobs'[j].status # jobs[j].status) =>
             << jobs[j].status, jobs'[j].status >> \in
                { << QUEUED, PROCESSING >>, << PROCESSING, COMPLETED >>,
                  << PROCESSING, FAILED >> } ]_vars

C1_Witness ==
    \E j, k \in DOMAIN jobs : jobs[j].status = COMPLETED /\ jobs[k].status = FAILED

\* C2: under fair scheduling, with a Converter that returns or raises, every
\* submitted job ends Completed or Failed unless the stop signal is set.
C2_NoLostJobs ==
    \A j \in JobIds : (j \in generated) ~> (Terminal(j) \/ stop_event)

C2_Witness ==
    /\ ~stop_event
    /\ generated = JobIds
    /\ \A j \in JobIds : Terminal(j)

\* C3: each job identifier is dequeued by at most one worker, the Converter
\* is invoked at most once per job, and a job's record is written only by
\* the worker that dequeued it.
C3_ExactlyOnce ==
    /\ [](\A j \in JobIds : Cardinality(dequeuedBy[j]) <= 1 /\ invoked[j] <= 1)
    /\ [][ \A j \in DOMAIN jobs :
             (j \in DOMAIN jobs' /\ jobs'[j] # jobs[j]) =>
                /\ lock \in Workers
                /\ wjob_id[lock] = Some(j)
                /\ dequeuedBy[j] = {lock} ]_vars

C3_Witness ==
    /\ \A w \in Workers : wpc[w] = "task_done"
    /\ \A j \in JobIds : Cardinality(dequeuedBy[j]) = 1 /\ invoked[j] = 1

\* C4: a result is set only on a Completed job and an error only on a Failed
\* job; no job has both, and a Queued or Processing job has neither.
C4_ExclusiveOutcome ==
    \A j \in DOMAIN jobs :
       LET job == jobs[j]
           hasResult == IsSet(job.markdown_result) \/ IsSet(job.image_paths)
       IN /\ hasResult => job.status = COMPLETED
          /\ IsSet(job.error) => job.status = FAILED
          /\ ~(hasResult /\ IsSet(job.error))
          /\ job.status \in {QUEUED, PROCESSING} => ~hasResult /\ ~IsSet(job.error)

C4_Witness ==
    \E j, k \in DOMAIN jobs :
       /\ jobs[j].status = COMPLETED /\ IsSet(jobs[j].markdown_result)
       /\ jobs[k].status = FAILED /\ IsSet(jobs[k].error)

\* the job a request asks about, and what the registry holds for it
Asked(p) == Val(pjob_id[p])
AskedState(p) == StateOf(jobs, Asked(p))

\* C5: /result answers by the job's state when get_job_result reads it: the
\* output iff Completed, the failure iff Failed, 'not completed yet' for a
\* job that was Queued or Processing, 404 for an unknown identifier.
C5_ResultByState ==
    \A p \in Pollers :
       /\ ppc[p] = "result" =>
            /\ IsSet(get_job_result(jobs, Asked(p))) <=> AskedState(p) \in {COMPLETED, FAILED}
            /\ AskedState(p) = COMPLETED =>
                 LET r == get_result_response(p) IN
                    /\ r.code = 200
                    /\ r.body.job_id = Asked(p)
                    /\ r.body.filename = jobs[Asked(p)].filename
                    /\ r.body.markdown = jobs[Asked(p)].markdown_result
                    /\ IsSet(r.body.markdown)
                    /\ r.body.completed_at = isoformat(Val(jobs[Asked(p)].completed_at))
            /\ AskedState(p) = FAILED =>
                 LET r == get_result_response(p) IN
                    /\ "markdown" \notin DOMAIN r.body
                    /\ r.body.error = jobs[Asked(p)].error
                    /\ r.body.status = "failed"
       /\ ppc[p] = "result_status_locked" =>
            LET r == get_result_response(p) IN
               /\ r.code \in {404, 202}
               /\ "markdown" \notin DOMAIN r.body
               /\ r = NotFound <=> Val(seen[p]) = "unknown"
               /\ r.code = 202 => Val(seen[p]) \in {QUEUED, PROCESSING}

C5_Witness ==
    \E p \in Pollers : ppc[p] = "result" /\ AskedState(p) = COMPLETED

\* C6: the 202 'Job not completed yet' answer carries the status queued or
\* processing, never completed or failed.
C6_NotReadyIsPending ==
    \A p \in Pollers :
       (ppc[p] = "result_status_locked" /\ get_result_response(p).code = 202) =>
          get_result_response(p).body.status \in {"queued", "processing"}

\* the worker has left the block that records the failure of job j
FailureRecorded(j) ==
    /\ j \in DOMAIN jobs
    /\ IsSet(raised[j])
    /\ \A w \in Workers :
          wjob_id[w] = Some(j) => wpc[w] \notin {"fail", "fail_error", "fail_completed_at"}

\* C7: a job whose conversion raised ends Failed, its error the message
\* raised, no result, completed_at set; /status and /result then report
\* failed with that message.
C7_FailureCaptured ==
    /\ \A j \in DOMAIN jobs :
          FailureRecorded(j) =>
             /\ jobs[j].status = FAILED
             /\ jobs[j].error = raised[j]
             /\ ~IsSet(jobs[j].markdown_result) /\ ~IsSet(jobs[j].image_paths)
             /\ IsSet(jobs[j].completed_at)
    /\ \A p \in Pollers :
          /\ (ppc[p] = "status" /\ FailureRecorded(Asked(p))) =>
                /\ get_status_response(p).body.status = "failed"
                /\ get_status_response(p).body.error = raised[Asked(p)]
          /\ (ppc[p] = "result" /\ FailureRecorded(Asked(p))) =>
                /\ get_result_response(p).body.status = "failed"
                /\ get_result_response(p).body.error = raised[Asked(p)]

C7_Witness ==
    \E p \in Pollers : ppc[p] = "result" /\ FailureRecorded(Asked(p))

\* C8: a Converter failure changes only the failing job's record, the worker
\* goes on with its loop, jobs not yet done are still processed, and a worker
\* leaves its loop only after the stop signal is set.
C8_FailureContained ==
    /\ [][ \A w \in Workers :
             (wpc[w] \in {"fail", "fail_error", "fail_completed_at"} /\ lock = w) =>
                /\ \A k \in DOMAIN jobs \ {Val(wjob_id[w])} :
                      k \in DOMAIN jobs' /\ jobs'[k] = jobs[k]
                /\ wpc'[w] \in {"fail", "fail_error", "fail_completed_at", "task_done"} ]_vars
    /\ [][ \A w \in Workers :
             (wpc[w] = "task_done" /\ wpc'[w] # wpc[w]) => wpc'[w] = "loop" ]_vars
    /\ [](\A w \in Workers : wpc[w] = "stopped" => stop_event)
    /\ \A j \in JobIds :
          ((\E k \in DOMAIN jobs : jobs[k].status = FAILED) /\ j \in generated)
             ~> (Terminal(j) \/ stop_event)

\* a job submitted after another one failed, and handled by the same worker
C8_Witness ==
    \E j, k \in DOMAIN jobs :
       /\ jobs[j].status = FAILED
       /\ k \in afterFailure
       /\ Terminal(k)
       /\ dequeuedBy[j] = dequeuedBy[k]
       /\ ~stop_event

\* C9: submit_job leaves a Queued record with nothing else set, in the
\* registry before it returns; /status reports queued until a worker takes
\* the job from the queue.
C9_QueuedOnSubmit ==
    /\ \A j \in returned : j \in DOMAIN jobs
    /\ \A j \in DOMAIN jobs :
          dequeuedBy[j] = {} =>
             /\ jobs[j].status = QUEUED
             /\ ~IsSet(jobs[j].markdown_result) /\ ~IsSet(jobs[j].image_paths)
             /\ ~IsSet(jobs[j].error)
             /\ ~IsSet(jobs[j].started_at) /\ ~IsSet(jobs[j].completed_at)
    /\ \A p \in Pollers :
          (ppc[p] = "status" /\ Asked(p) \in returned /\ dequeuedBy[Asked(p)] = {}) =>
             LET r == get_status_response(p) IN
                /\ r.code = 200
                /\ r.body.status = "queued"
                /\ r.body.started_at = None /\ r.body.completed_at = None
                /\ r.body.error = None /\ ~r.body.has_result

C9_Witness ==
    \E p \in Pollers :
       ppc[p] = "status" /\ Asked(p) \in returned /\ dequeuedBy[Asked(p)] = {}

\* C10: /status answers 404 for an identifier never issued and a status view
\* for every identifier submit_job returned; no record leaves the registry.
C10_NotFoundIffNeverIssued ==
    /\ [](\A p \in Pollers :
            ppc[p] = "status" =>
               /\ Asked(p) \notin generated => get_status_response(p) = NotFound
               /\ Asked(p) \in returned =>
                    /\ get_status_response(p).code = 200
                    /\ get_status_response(p).body.job_id = Asked(p))
    /\ [][DOMAIN jobs \subseteq DOMAIN jobs']_vars

C10_Witness ==
    \E p \in Pollers : ppc[p] = "status" /\ Terminal(Asked(p))

\* the four counts of a stats answer, by the state they count
CountFields == [ queued |-> QUEUED, processing |-> PROCESSING,
                 completed |-> COMPLETED, failed |-> FAILED ]

\* C11: the total of a stats answer is the sum of its queued, processing,
\* completed and failed counts.
C11_StatsOneInstant ==
    \A t \in Statsers :
       tpc[t] = "return" =>
          tstats[t].total_jobs = tstats[t].queued + tstats[t].processing
                                 + tstats[t].completed + tstats[t].failed

\* C12: while get_queue_stats scans, every count it has taken is the number of
\* jobs the registry holds in that state, and when it takes the last one the
\* four counts are those of the registry then and add up to its size.
C12_ScanIsSnapshot ==
    /\ [](\A t \in Statsers :
            tpc[t] \in {"processing", "completed", "failed"} =>
               \A f \in DOMAIN tstats[t] : tstats[t][f] = count(jobs, CountFields[f]))
    /\ [][ \A t \in Statsers :
             (tpc[t] = "failed" /\ tpc'[t] = "queue_size") =>
                /\ \A f \in DOMAIN CountFields : tstats'[t][f] = count(jobs, CountFields[f])
                /\ tstats'[t].queued + tstats'[t].processing + tstats'[t].completed
                   + tstats'[t].failed = Cardinality(DOMAIN jobs) ]_vars

\* a scan that counted a job being processed and one that is done
C12_Witness ==
    \E t \in Statsers :
       /\ tpc[t] = "queue_size"
       /\ tstats[t].processing = 1
       /\ tstats[t].completed + tstats[t].failed = 1

\* C13: self.lock is held only inside the `with self.lock:` blocks, never by
\* a worker that runs the Converter or waits on the queue, so every holder
\* lets it go and every submit, status, result and stats request that has
\* begun ends, whether or not the Converter ever returns.
C13_NeverWaitsOnConversion ==
    /\ [](\A w \in Workers :
            wpc[w] \in {"loop", "get", "process", "task_done", "stopped"} => lock # w)
    /\ (lock # "free") ~> (lock = "free")
    /\ \A s \in Submitters : (spc[s] \in {"insert", "insert_locked", "put"}) ~> (spc[s] = "idle")
    /\ \A p \in Pollers : (ppc[p] # "idle") ~> (ppc[p] = "idle")
    /\ \A t \in Statsers : (tpc[t] # "idle") ~> (tpc[t] = "idle")

\* a submit on its way while every worker is inside the Converter
C13_Witness ==
    /\ workers # {}
    /\ \A w \in workers : wpc[w] = "process"
    /\ \E s \in Submitters : spc[s] = "insert_locked"

\* a status view whose fields agree with its state
Settled(view) ==
    /\ IsSet(view.started_at) <=> view.status \in {"processing", "completed", "failed"}
    /\ IsSet(view.completed_at) <=> view.status \in {"completed", "failed"}
    /\ IsSet(view.error) <=> view.status = "failed"
    /\ view.has_result => view.status = "completed"

\* C14: every status view handed out, by /status and by get_job_status in
\* /result, has started_at set iff it is past Queued, completed_at set iff it
\* is Completed or Failed, error set iff Failed, has_result only if Completed.
C14_ViewsAreSettled ==
    \A p \in Pollers :
       (ppc[p] \in {"status", "result_status_locked"} /\ Asked(p) \in DOMAIN jobs) =>
          Settled(Val(get_job_status(jobs, Asked(p))))

\* a view of a job being processed, taken while another job finishes
C14_Witness ==
    \E p \in Pollers :
       /\ ppc[p] = "status"
       /\ AskedState(p) = PROCESSING
       /\ \E w \in Workers : wpc[w] \in {"complete", "fail"}

\* a worker is inside a `with self.lock:` block that writes job j
InBlock(j) == \E w \in Workers : lock = w /\ wjob_id[w] = Some(j)

\* C15: with a clock that never goes back, a started job has
\* created_at <= started_at, and a Completed or Failed job has
\* created_at <= started_at <= completed_at.
C15_MonotonicTimestamps ==
    \A j \in DOMAIN jobs :
       ~InBlock(j) =>
          /\ IsSet(jobs[j].started_at) => jobs[j].created_at <= Val(jobs[j].started_at)
          /\ jobs[j].status \in {PROCESSING, COMPLETED, FAILED} => IsSet(jobs[j].started_at)
          /\ jobs[j].status \in {COMPLETED, FAILED} =>
                /\ IsSet(jobs[j].completed_at)
                /\ Val(jobs[j].started_at) <= Val(jobs[j].completed_at)

\* a finished job created after the clock had moved, and one whose three
\* timestamps are the same reading
C15_Witness ==
    \E j, k \in DOMAIN jobs :
       /\ Terminal(j) /\ ~InBlock(j) /\ jobs[j].created_at > 0
       /\ Terminal(k) /\ ~InBlock(k) /\ Val(jobs[k].completed_at) = jobs[k].created_at

\* the jobs in state Processing that worker w took from the queue
ProcessingOf(w) ==
    { j \in DOMAIN jobs : jobs[j].status = PROCESSING /\ w \in dequeuedBy[j] }

\* C16: at most num_workers jobs are Processing, each of them is the job in
\* the hands of one worker, and no worker has two.
C16_BoundedConcurrency ==
    /\ count(jobs, PROCESSING) <= num_workers
    /\ \A w \in Workers : Cardinality(ProcessingOf(w)) <= 1
    /\ \A j \in DOMAIN jobs :
          jobs[j].status = PROCESSING =>
             \E w \in Workers : dequeuedBy[j] = {w} /\ wjob_id[w] = Some(j)

\* every worker of the pool has a job Processing and another job waits
C16_Witness ==
    /\ count(jobs, PROCESSING) = num_workers
    /\ job_queue # << >>

\* C17: with one worker and one caller submitting one job after another, a
\* job is taken out of Queued only when every job submitted before it is
\* Completed or Failed, so the jobs also end in submission order.
C17_FifoOneWorker ==
    \A j, k \in DOMAIN jobs :
       (j < k /\ jobs[k].status # QUEUED) => Terminal(j)

C17_Witness ==
    \E j, k \in DOMAIN jobs : j < k /\ jobs[k].status = PROCESSING /\ Terminal(j)

\* C18: of two jobs in the work queue, the one put in the registry first is
\* ahead of the other.
C18_InsertOrderIsQueueOrder ==
    \A a, b \in 1 .. Len(inserted) :
       a < b =>
          \A x, y \in 1 .. Len(job_queue) :
             (job_queue[x] = inserted[a] /\ job_queue[y] = inserted[b]) => x < y

\* C19: a submit whose identifier the registry already holds is aborted: the
\* record stays as it is and the identifier is not queued.
C19_DuplicateIsRefused ==
    [][ \A s \in Submitters :
          (spc[s] = "insert_locked" /\ spc'[s] # spc[s]
           /\ Val(sjob[s]).job_id \in DOMAIN jobs) =>
             /\ jobs' = jobs
             /\ spc'[s] # "put" ]_vars

\* the submit calls that have not returned yet, and those among them that
\* have not put their record in the registry yet
Submitting == { s \in Submitters : spc[s] \in {"insert", "insert_locked", "put"} }
NotInserted == { s \in Submitters : spc[s] \in {"insert", "insert_locked"} }

\* C20: the identifiers returned so far are as many as the submit calls that
\* have returned, and the registry holds one record for each call that has
\* passed its insert; an insert adds one record and changes no other.
C20_Uniqueness ==
    /\ [](Cardinality(returned) = calls - Cardinality(Submitting))
    /\ [](Cardinality(DOMAIN jobs) = calls - Cardinality(NotInserted))
    /\ [](returned \subseteq DOMAIN jobs)
    /\ [][ \A s \in Submitters :
             (spc[s] = "insert_locked" /\ spc'[s] = "put") =>
                /\ Val(sjob[s]).job_id \notin DOMAIN jobs
                /\ DOMAIN jobs' = DOMAIN jobs \cup {Val(sjob[s]).job_id}
                /\ \A j \in DOMAIN jobs : jobs'[j] = jobs[j] ]_vars

\* every call has returned, two of them having run at the same time
C20_Witness ==
    /\ calls = MaxJobs
    /\ Submitting = {}
    /\ Cardinality(returned) = MaxJobs
    /\ inserted # << >> /\ inserted # job_queue

\* every worker thread of the pool has left _worker
AllExited == \A w \in Workers : wpc[w] \in {"stopped", "absent"}

\* C21: once the stop signal is set every worker eventually leaves its loop.
\* A worker at the top of the loop leaves at once; one waiting on the empty
\* queue goes back to the top of the loop when the wait times out, hence
\* leaves after one expiry; a worker leaves only with every job it took in a
\* terminal state, so one that is converting leaves after the conversion has
\* returned or raised and the terminal transition is written.
C21_StopReachesEveryWorker ==
    /\ stop_event ~> AllExited
    /\ [][\A w \in Workers :
            /\ (stop_event /\ wpc[w] = "loop" /\ wpc'[w] # "loop") => wpc'[w] = "stopped"
            /\ (wpc[w] = "get" /\ job_queue = << >> /\ wpc'[w] # "get") => wpc'[w] = "loop"
            /\ (wpc[w] # "stopped" /\ wpc'[w] = "stopped") =>
                   /\ stop_event /\ wpc[w] = "loop" /\ lock # w
                   /\ \A j \in JobIds : w \in dequeuedBy[j] => Terminal(j)]_vars

\* the signal is set, every worker has left, and one of them converted a job
C21_Witness ==
    /\ stop_event /\ AllExited
    /\ \E w \in Workers, j \in JobIds : w \in dequeuedBy[j] /\ wpc[w] = "stopped"

\* C22: the four reading operations (status, result, batch status, stats)
\* leave every job record and the work queue as they are: a step of a request
\* to one of them changes neither the registry, nor the queue, nor the count
\* of unfinished tasks.  The view of a job is a function of its record alone,
\* so two status lookups between which no worker has written return the same
\* view.
C22_ReadsChangeNothing ==
    [][(ppc' # ppc \/ bpc' # bpc \/ tpc' # tpc \/ bresults' # bresults
            \/ tstats' # tstats) =>
           /\ jobs' = jobs
           /\ job_queue' = job_queue
           /\ unfinished_tasks' = unfinished_tasks
           /\ \A j \in DOMAIN jobs :
                  get_job_status(jobs', j) = Some(to_dict(jobs[j]))]_vars

\* each kind of request has an answer at hand for a job that is finished
\* while another is still in the queue
C22_Witness ==
    /\ job_queue # << >>
    /\ \E j \in DOMAIN jobs : Terminal(j)
    /\ \/ \E p \in Pollers : ppc[p] \in {"status", "result"}
       \/ \E b \in Batchers : bpc[b] = "return" /\ bresults[b] # << >>
       \/ \E t \in Statsers : tpc[t] = "return"

\* how far a job has come: the position of a reported status in the lifecycle
rank(status) == CASE status = "queued" -> 0
                  [] status = "processing" -> 1
                  [] status \in {"completed", "failed"} -> 2

\* C23: no stale reads.  The view a lookup returns carries the state the
\* registry holds when the lookup is made, hence every transition committed
\* before the lookup began; and the states one request observes for a job,
\* one lookup after another, never move backwards.
C23_NoStaleReads ==
    /\ [][\A b \in Batchers :
            (bpc[b] = "status" /\ bpc'[b] = "loop" /\ batch_job_id(b) \in DOMAIN jobs) =>
                LET view == bresults'[b][Len(bresults'[b])] IN
                /\ view.job_id = batch_job_id(b)
                /\ view.status = value(jobs[batch_job_id(b)].status)
                /\ view.started_at = None <=> jobs[batch_job_id(b)].started_at = None
                /\ view.completed_at = None <=> jobs[batch_job_id(b)].completed_at = None]_vars
    /\ [](\A b \in Batchers : \A i, k \in DOMAIN bresults[b] :
            (/\ i < k
             /\ bjob_ids[b][i] = bjob_ids[b][k]
             /\ "status" \in DOMAIN bresults[b][i]
             /\ "status" \in DOMAIN bresults[b][k]) =>
                rank(bresults[b][i].status) <= rank(bresults[b][k].status))

\* one request looked a job up twice and saw it move on in between
C23_Witness ==
    \E b \in Batchers : \E i, k \in DOMAIN bresults[b] :
        /\ i < k
        /\ bjob_ids[b][i] = bjob_ids[b][k]
        /\ "status" \in DOMAIN bresults[b][i]
        /\ "status" \in DOMAIN bresults[b][k]
        /\ rank(bresults[b][i].status) < rank(bresults[b][k].status)

\* C24: batch status returns one entry per requested identifier, in the order
\* of the request: the status view of the job for an identifier the registry
\* knows, an entry of its own carrying the identifier and "Job not found" for
\* one it does not know; an unknown identifier does not fail the batch.
C24_BatchEntryPerIdentifier ==
    \A b \in Batchers :
        /\ Len(bresults[b]) <= Len(bjob_ids[b])
        /\ bpc[b] = "return" =>
               /\ Len(bresults[b]) = Len(bjob_ids[b])
               /\ batch_status_response(b).code = 200
        /\ \A i \in DOMAIN bresults[b] :
               /\ "job_id" \in DOMAIN bresults[b][i]
               /\ bresults[b][i].job_id = bjob_ids[b][i]
               /\ IF bjob_ids[b][i] \in DOMAIN jobs
                  THEN /\ "status" \in DOMAIN bresults[b][i]
                       /\ "error" \in DOMAIN bresults[b][i] =>
                              bresults[b][i].error \in {None, jobs[bjob_ids[b][i]].error}
                  ELSE bresults[b][i] = [ job_id |-> bjob_ids[b][i], error |-> "Job not found" ]

\* a batch that asked about an unknown identifier and then a known one is
\* about to return both entries
C24_Witness ==
    \E b \in Batchers :
        /\ bpc[b] = "return"
        /\ Len(bjob_ids[b]) = 2
        /\ bjob_ids[b][1] \notin DOMAIN jobs
        /\ bjob_ids[b][2] \in DOMAIN jobs

\* C25: a job's identifier, filename, payload and created_at never change
\* once it is in the registry; started_at is written once, from unset, by the
\* block that moves the job from Queued to Processing; completed_at is
\* written once, from unset, by the block that moves it to Completed or
\* Failed; neither changes afterwards.
C25_SetOnceFields ==
    [][\A j \in DOMAIN jobs :
          /\ j \in DOMAIN jobs'
          /\ jobs'[j].job_id = j /\ jobs[j].job_id = j
          /\ jobs'[j].filename = jobs[j].filename
          /\ jobs'[j].pdf_data = jobs[j].pdf_data
          /\ jobs'[j].created_at = jobs[j].created_at
          /\ jobs'[j].started_at # jobs[j].started_at =>
                 /\ jobs[j].started_at = None
                 /\ jobs[j].status = PROCESSING /\ jobs'[j].status = PROCESSING
                 /\ jobs[j].completed_at = None
                 /\ InBlock(j)
          /\ jobs'[j].completed_at # jobs[j].completed_at =>
                 /\ jobs[j].completed_at = None
                 /\ jobs[j].status \in {COMPLETED, FAILED}
                 /\ jobs'[j].status = jobs[j].status
                 /\ IsSet(jobs[j].started_at)
                 /\ InBlock(j)]_vars

\* a finished job whose completion was stamped later than its creation
C25_Witness ==
    \E j \in DOMAIN jobs :
        /\ Terminal(j) /\ ~InBlock(j)
        /\ IsSet(jobs[j].started_at) /\ IsSet(jobs[j].completed_at)
        /\ jobs[j].created_at < Val(jobs[j].completed_at)

\* C26: every identifier in the work queue has a record in the registry, in
\* state Queued, and occurs in the queue once; a worker that has taken an
\* identifier from the queue finds its record, so the "Job not found" branch
\* of _worker is never taken.
C26_InsertBeforeEnqueue ==
    /\ \A i \in DOMAIN job_queue :
          /\ job_queue[i] \in DOMAIN jobs
          /\ jobs[job_queue[i]].status = QUEUED
          /\ \A k \in DOMAIN job_queue : job_queue[k] = job_queue[i] => k = i
    /\ \A w \in Workers : IsSet(wjob_id[w]) => Val(wjob_id[w]) \in DOMAIN jobs

\* a worker has found the record of the job it dequeued while another job
\* waits in the queue
C26_Witness ==
    /\ Len(job_queue) = 1
    /\ \E w \in Workers : wpc[w] = "start" /\ lock # w /\ IsSet(wjob_id[w])

\* C27: when stop() returns every worker thread it has joined has left
\* _worker, so that no worker writes to the registry afterwards, also when a
\* worker was inside a conversion as stop() was called.
C27_StopWaitsForWorkers ==
    mpc = "returned" => \A w \in mjoined : wpc[w] = "stopped" /\ lock # w

\* C28: in every answer of /stats the queue depth is at most the number of
\* jobs counted as Queued, also when jobs are submitted and dequeued while
\* the request runs.
C28_QueueDepthAtMostQueued ==
    \A t \in Statsers :
        tpc[t] = "return" => tstats[t].queue_size <= tstats[t].queued

\* worker w is past the loop test and has not yet moved the job of this
\* iteration to Processing
MayStart(w) == wpc[w] \in {"get", "fetch", "start"}

\* a record as submit_job made it
Untouched(job) ==
    /\ job.status = QUEUED
    /\ job.started_at = None /\ job.completed_at = None
    /\ job.markdown_result = None /\ job.image_paths = None /\ job.error = None

\* C29: once the stop signal is set a worker moves at most one more job from
\* Queued to Processing: only a worker that had passed the loop test moves
\* one, doing so it uses that iteration up, and with the signal set no worker
\* passes the loop test again.  When all workers have left, no record
\* changes any more and nothing leaves the queue: the jobs in the queue and
\* the jobs submitted afterwards stay Queued, as submit_job made them.
C29_AtMostOneMoreJob ==
    /\ [][stop_event =>
            /\ stop_event'
            /\ \A w \in Workers :
                  /\ MayStart(w)' => MayStart(w)
                  /\ \A j \in DOMAIN jobs :
                        (jobs[j].status = QUEUED /\ jobs'[j].status # QUEUED /\ lock = w) =>
                            /\ jobs'[j].status = PROCESSING
                            /\ MayStart(w) /\ ~MayStart(w)']_vars
    /\ [][AllExited =>
            /\ AllExited'
            /\ \A j \in DOMAIN jobs : j \in DOMAIN jobs' /\ jobs'[j] = jobs[j]
            /\ \A j \in DOMAIN jobs' \ DOMAIN jobs : Untouched(jobs'[j])
            /\ Len(job_queue) <= Len(job_queue')
            /\ SubSeq(job_queue', 1, Len(job_queue)) = job_queue]_vars
    /\ [](AllExited => \A i \in DOMAIN job_queue : Untouched(jobs[job_queue[i]]))

\* every worker has left after the signal, having finished a job that was
\* submitted before another one, which is still waiting in the queue
C29_Witness ==
    /\ stop_event /\ AllExited
    /\ job_queue # << >>
    /\ \E j \in DOMAIN jobs : Terminal(j) /\ \A i \in DOMAIN job_queue : j < job_queue[i]

\* every file has been handed out and every thread of the pool is free again
AllFilesDone == ctodo = << >> /\ \A t \in PoolThreads : cpc[t] = "idle"

\* the files process_pdf returned False for
FailedFiles == { f \in DOMAIN coutcome : coutcome[f] \notin {"pending", "completed"} }

\* C30: when the pool has worked through the K files, completed + failed is
\* K, the errors list has one entry for each file that failed and no other,
\* and each counter holds the number of its increments: completed the files
\* that succeeded, failed the files that failed, submitted the files whose
\* submission the server accepted.
C30_NoLostUpdate ==
    AllFilesDone =>
        /\ cstats.completed + cstats.failed = MaxFiles
        /\ cstats.completed = Cardinality({ f \in DOMAIN coutcome : coutcome[f] = "completed" })
        /\ cstats.failed = Cardinality(FailedFiles)
        /\ cstats.submitted =
               Cardinality({ f \in DOMAIN coutcome :
                               coutcome[f] \notin {"pending", "Failed to submit"} })
        /\ Len(cstats.errors) = Cardinality(FailedFiles)
        /\ \A f \in FailedFiles :
               \E i \in DOMAIN cstats.errors : cstats.errors[i] = << f, coutcome[f] >>
====
